---- MODULE Spec2Model ----
(***************************************************************************)
(* A model of the score engine of parser_module: Core.py (records,         *)
(* accuracy and score formulas) and Search.py (per-chart and per-player    *)
(* pipelines, leaderboard sort).                                           *)
(*                                                                         *)
(* Python values whose dynamic type decides the control flow are tagged    *)
(* records [t |-> <type name>, v |-> <payload>].  Floats are fixed-point   *)
(* integers: accuracies in millionths, multipliers and scores in           *)
(* thousandths, speeds in hundredths.  A call's outcome is                 *)
(* [ok, v, err]: a returned value or the name of the raised exception.     *)
(***************************************************************************)
EXTENDS Integers, Sequences, FiniteSets, TLC

VARIABLES
    passes,     \* DataScraper.passes: the pass list handed to the pipelines
    call,       \* the operation last applied and its arguments
    ret,        \* the outcome of that operation
    resultObj,  \* ResultObj.params of the record under update
    playerObj,  \* PlayerObj.params of the record under update
    board       \* playerLeaderboard as collected by searchAllPlayers

vars == <<passes, call, ret, resultObj, playerObj, board>>

---------------------------------------------------------------------------
(* Bounds of the model *)

MaxCount == 1
MaxPasses == 2
MaxBoard == 2
MaxScores == 21

---------------------------------------------------------------------------
(* Python values and call outcomes *)

PyInt(n) == [t |-> "int", v |-> n]
PyFloat(n) == [t |-> "float", v |-> n]
PyStr(s) == [t |-> "str", v |-> s]
PyBool(b) == [t |-> "bool", v |-> b]
PyNone == [t |-> "NoneType", v |-> 0]
PyList(s) == [t |-> "list", v |-> s]
PyDict(f) == [t |-> "dict", v |-> f]

Ok(x) == [ok |-> TRUE, v |-> x, err |-> "none"]
Raise(e) == [ok |-> FALSE, v |-> 0, err |-> e]

\* No outcome yet: the call has not been made
Pending == [ok |-> FALSE, v |-> 0, err |-> "pending"]

Max(a, b) == IF a >= b THEN a ELSE b

RECURSIVE SumSeq(_)
SumSeq(s) == IF s = <<>> THEN 0 ELSE Head(s) + SumSeq(Tail(s))

\* Python's iteration over a container: a dict yields its keys (strings),
\* a list yields its elements.
JNames == <<"earlyDouble", "earlySingle", "ePerfect", "perfect",
            "lPerfect", "lateSingle", "lateDouble">>

JNameSet == {JNames[i] : i \in 1..Len(JNames)}

Iterate(c) ==
    IF c.t = "dict"
    THEN LET present == SelectSeq(JNames, LAMBDA k : k \in DOMAIN c.v)
         IN [i \in 1..Len(present) |-> PyStr(present[i])]
    ELSE c.v

---------------------------------------------------------------------------
(* Core.py: module constants *)

gmConst == 315
start == 1
end == 50
startDeduc == 10
endDeduc == 50
pwrTenths == 7

\* Fixed-point unit of multipliers and scores (thousandths)
Milli == 10 * 10 * 10

\* The fallback accuracy 0.95, in millionths
DefaultXacc == 950000

\* m.pow(k / (end - start), pwr) in thousandths, k in 1..(end - start); the
\* arguments the penalty curve passes are (am - start)/(tp - start) and
\* (end - am)/(end - tp) with tp - start = end - tp = (end - start)/2.
PowTable ==
    <<66, 107, 142, 173, 202, 230, 256, 281, 305, 329, 351, 373, 395, 416,
      437, 457, 477, 496, 515, 534, 553, 571, 589, 607, 624, 642, 659, 676,
      693, 709, 726, 742, 758, 774, 790, 806, 821, 837, 852, 868, 883, 898,
      913, 927, 942, 957, 971, 986, 1000>>

PowPwr(k) == IF k <= 0 THEN 0 ELSE PowTable[k]

\* Utils.getScoreV2Mtp(tiles, inputs): thousandths
getScoreV2Mtp(tiles, inputs) ==
    LET misses == inputs[1].v
        tpDeduc2 == startDeduc + endDeduc       \* 2 * tpDeduc
        am == Max(0, misses - (tiles \div gmConst))
    IN  IF misses = 0 THEN 1100
        ELSE IF am <= 0 THEN Milli
        ELSE IF am <= start THEN Milli - startDeduc * 10
        ELSE IF 2 * am <= start + end
             THEN LET kOne == (PowPwr(2 * (am - start))
                                 * (tpDeduc2 - 2 * startDeduc) * 5) \div Milli
                  IN  Milli - startDeduc * 10 - kOne
        ELSE IF am <= end
             THEN LET kTwo == (PowPwr(2 * (end - am))
                                 * (2 * endDeduc - tpDeduc2) * 5) \div Milli
                  IN  Milli + kTwo - endDeduc * 10
        ELSE Milli - endDeduc * 10

\* 20 * (weighted judgement total): weights 1, 0.75, 0.4, 0.2
WeightedTotal(p, eP, lP, eS, lS, eD, lD) ==
    20 * p + 15 * (eP + lP) + 8 * (eS + lS) + 4 * (eD + lD)

IsNumber(x) == x.t \in {"int", "float", "bool"}

\* Utils.getXacc(judgements): millionths
getXacc(judgements) ==
    IF judgements.t = "dict"
    THEN LET j == judgements.v
         IN  IF \E i \in 1..Len(JNames) : JNames[i] \notin DOMAIN j
             THEN Ok(DefaultXacc)                       \* KeyError, caught
             ELSE IF \E i \in 1..Len(JNames) : ~IsNumber(j[JNames[i]])
             THEN Ok(DefaultXacc)                       \* TypeError, caught
             ELSE LET total == WeightedTotal(j["perfect"].v, j["ePerfect"].v,
                                   j["lPerfect"].v, j["earlySingle"].v,
                                   j["lateSingle"].v, j["earlyDouble"].v,
                                   j["lateDouble"].v)
                      count == SumSeq([i \in 1..Len(JNames) |-> j[JNames[i]].v])
                  IN  IF count > 0 THEN Ok((total * 50000) \div count)
                      ELSE Ok(DefaultXacc)
    ELSE LET l == judgements.v
         IN  IF \E i \in 1..Len(l) : l[i].t # "int"
             THEN Ok(DefaultXacc)
             ELSE IF Len(l) < 7 THEN Raise("IndexError")
             ELSE LET total == WeightedTotal(l[4].v, l[3].v, l[5].v, l[2].v,
                                             l[6].v, l[1].v, l[7].v)
                      count == SumSeq([i \in 1..Len(l) |-> l[i].v])
                  IN  IF count = 0 THEN Raise("ZeroDivisionError")
                      ELSE Ok((total * 50000) \div count)

\* The curve of Utils.getXaccMtp on an accuracy in millionths; the result
\* is in thousandths, 0 - 1 standing for the implicit None of the fall-through.
NoneMtp == 0 - 1

\* A faulty curve that subtracts the hyperbola instead of adding it
XaccMtpOfInverted(xacc) ==
    IF xacc < 950000 THEN Milli
    ELSE IF xacc < 1000000 THEN 513 - (27000000 \div (1005400 - xacc))
    ELSE IF xacc = 1000000 THEN 10 * Milli
    ELSE NoneMtp

XaccMtpOf(xacc) ==
    IF xacc < 950000 THEN Milli
    ELSE IF xacc < 1000000 THEN 513 + (27000000 \div (1005400 - xacc))
    ELSE IF xacc = 1000000 THEN 10 * Milli
    ELSE NoneMtp

\* Utils.getXaccMtp(inp); an exception of getXacc passes through
XaccMtpResult(xacc) == IF ~xacc.ok THEN xacc ELSE Ok(XaccMtpOf(xacc.v))

getXaccMtp(inp) == XaccMtpResult(getXacc(inp))

\* Utils.getSpeedMtp(SPEED, isDesBus): SPEED is None or hundredths, the
\* result thousandths.  In the isDesBus branch a SPEED strictly between 0
\* and 1 matches neither test and falls through to the common branches.
getSpeedMtp(SPEED, isDesBus) ==
    LET s == SPEED.v
        common ==
            IF SPEED.t = "NoneType" \/ s = 100 THEN Milli
            ELSE IF s < 100 THEN 0
            ELSE IF s < 110 THEN 4500 - 35 * s
            ELSE IF s < 150 THEN 650
            ELSE IF s < 200 THEN 7 * s - 400
            ELSE Milli
    IN  IF isDesBus
        THEN IF SPEED.t = "NoneType" \/ s = 0 \/ s = 100 THEN Milli
             ELSE IF s > 100 THEN 2 * Milli - 10 * s
             ELSE common
        ELSE common

FMul(a, b) == (a * b) \div Milli

\* Utils.getScore(passData, chartData): thousandths of a point
ScoreOf(passData, chartData, xaccMtp) ==
    IF ~xaccMtp.ok THEN xaccMtp
    ELSE IF chartData.diff = 64
    THEN Ok(Max(FMul(FMul(chartData.baseScore * Milli, xaccMtp.v),
                     getSpeedMtp(passData.speed, TRUE)), Milli))
    ELSE Ok(FMul(FMul(chartData.baseScore * Milli, xaccMtp.v),
                 getSpeedMtp(passData.speed, FALSE)))

getScore(passData, chartData) ==
    IF passData.judgements.t # "dict" THEN Raise("TypeError")
    ELSE IF ~(JNameSet \subseteq DOMAIN passData.judgements.v)
    THEN Raise("KeyError")
    ELSE ScoreOf(passData, chartData,
             getXaccMtp(PyList([i \in 1..Len(JNames) |->
                                   passData.judgements.v[JNames[i]]])))

\* Utils.getScoreV2(passData, chartData): thousandths of a point
AllInt(elems) == \A i \in 1..Len(elems) : elems[i].t = "int"

ScoreV2Mtp(inputs) ==
    IF AllInt(Iterate(inputs))
    THEN getScoreV2Mtp(SumSeq([i \in 1..(Len(inputs.v) - 2) |->
                                  inputs.v[i + 1].v]),
                       inputs.v)
    ELSE Milli

NoHoldMtp(passData, mtp) ==
    IF passData.isNoHoldTap THEN FMul(mtp, 900) ELSE mtp

ScoreV2Of(passData, scoreOrig) ==
    IF ~scoreOrig.ok THEN scoreOrig
    ELSE IF AllInt(Iterate(passData.judgements))
            /\ passData.judgements.t # "list"
    THEN Raise("TypeError")                      \* inputs[1:-1] on a dict
    ELSE Ok(FMul(scoreOrig.v,
                 NoHoldMtp(passData, ScoreV2Mtp(passData.judgements))))

getScoreV2(passData, chartData) ==
    ScoreV2Of(passData, getScore(passData, chartData))

---------------------------------------------------------------------------
(* Core.py: the dict-backed records.  Python strings that are stored in or  *)
(* compared through a record are sequences of code points.                  *)

EmptyStr == <<>>

\* ResultObj.__init__
ResultObjInit ==
    [k \in {"player", "song", "artist", "score", "vidLink", "feelingRating"}
        |-> PyStr(EmptyStr)]
    @@ [k \in {"playerId", "pguDiff", "Xacc", "pdnDiff", "levelId", "passId",
               "baseScore"} |-> PyInt(0)]
    @@ [k \in {"isWorldsFirst", "is12K", "is16K", "isNoHold", "isDeleted"}
        |-> PyBool(FALSE)]
    @@ [k \in {"speed"} |-> PyFloat(100)]
    @@ [k \in {"date"} |-> PyNone]
    @@ [k \in {"judgements"} |-> PyList(<<>>)]

\* PlayerObj.__init__ (params; allScores starts as None)
PlayerObjInit ==
    [k \in {"player", "topDiff", "top12kDiff", "country"} |-> PyStr(EmptyStr)]
    @@ [k \in {"playerId", "rankedScore", "generalScore", "ppScore", "wfScore",
               "12kScore", "avgXacc", "totalPasses", "universalPasses",
               "WFPasses"} |-> PyInt(0)]

\* dict.update
DictUpdate(params, inp) ==
    [k \in DOMAIN params \cup DOMAIN inp |->
        IF k \in DOMAIN inp THEN inp[k] ELSE params[k]]

\* A faulty updateParams that applies the mapping before it validates it
updateParamsUnchecked(params, inp) ==
    [params |-> [k \in DOMAIN params |->
                    IF k \in DOMAIN inp THEN inp[k] ELSE params[k]],
     out |-> IF \E key \in DOMAIN inp : key \notin DOMAIN params
             THEN Raise("ValueError") ELSE Ok(0)]

\* ResultObj.updateParams(inp): the params afterwards and the outcome
ResultObj_updateParams(params, inp) ==
    IF \E key \in DOMAIN inp : key \notin DOMAIN params
    THEN [params |-> params, out |-> Raise("ValueError")]
    ELSE [params |-> DictUpdate(params, inp), out |-> Ok(0)]

\* PlayerObj.updateParams(inp): the params afterwards and the outcome
PlayerObj_updateParams(params, inp) ==
    IF \E key \in DOMAIN inp : key \notin DOMAIN params
    THEN [params |-> params, out |-> Raise("ValueError")]
    ELSE [params |-> DictUpdate(params, inp), out |-> Ok(0)]

---------------------------------------------------------------------------
(* Core.py: aggregation *)

TopN == 20

\* 0.9 ** n in thousandths
RECURSIVE DecayWeight(_)
DecayWeight(n) == IF n = 0 THEN Milli ELSE (DecayWeight(n - 1) * 9) \div 10

\* A faulty getRankedScore that never caps top at 20
getRankedScoreUncapped(scores) ==
    SumSeq([n \in 1..Len(scores) |-> FMul(DecayWeight(n - 1), scores[n])])

\* Utils.getRankedScore(scores, top=20)
getRankedScore(scores) ==
    LET top == IF Len(scores) < TopN THEN Len(scores) ELSE TopN
    IN  SumSeq([n \in 1..top |-> FMul(DecayWeight(n - 1), scores[n])])

\* Utils.calculateScores(scores): the 12K decay sum over the first 20 is12K
\* records in the given order
RECURSIVE TvwKSum(_, _)
TvwKSum(scores, tvwkCounter) ==
    IF scores = <<>> THEN 0
    ELSE IF Head(scores)["is12K"].v /\ tvwkCounter < TopN
    THEN FMul(DecayWeight(tvwkCounter), Head(scores)["score"].v)
             + TvwKSum(Tail(scores), tvwkCounter + 1)
    ELSE TvwKSum(Tail(scores), tvwkCounter)

calculateScores(scores) ==
    [generalScore |-> SumSeq([i \in 1..Len(scores) |-> scores[i]["score"].v]),
     ppScore |-> SumSeq([i \in 1..Len(scores) |->
                    IF scores[i]["Xacc"].v = 1000000
                    THEN scores[i]["score"].v ELSE 0]),
     wfScore |-> SumSeq([i \in 1..Len(scores) |->
                    IF scores[i]["isWorldsFirst"].v
                    THEN scores[i]["baseScore"].v ELSE 0]),
     TvwKScore |-> TvwKSum(scores, 0)]

---------------------------------------------------------------------------
(* Sorting.  A sort key is a sequence of atoms and an atom a sequence of    *)
(* integers: <<n>> for a number, the code points for a string.  Python      *)
(* compares both lexicographically; sorted() is stable.                     *)

RECURSIVE LexLess(_, _)
LexLess(a, b) ==
    IF b = <<>> THEN FALSE
    ELSE IF a = <<>> THEN TRUE
    ELSE IF Head(a) < Head(b) THEN TRUE
    ELSE IF Head(a) > Head(b) THEN FALSE
    ELSE LexLess(Tail(a), Tail(b))

RECURSIVE KeyLess(_, _)
KeyLess(k1, k2) ==
    IF k2 = <<>> THEN FALSE
    ELSE IF k1 = <<>> THEN TRUE
    ELSE IF LexLess(Head(k1), Head(k2)) THEN TRUE
    ELSE IF LexLess(Head(k2), Head(k1)) THEN FALSE
    ELSE KeyLess(Tail(k1), Tail(k2))

\* sorted(): the indices of the items in ascending key order, equal keys in
\* their original order
SortPerm(keys) ==
    LET n == Len(keys)
        rank(i) == 1 + Cardinality({j \in 1..n :
                        \/ KeyLess(keys[j], keys[i])
                        \/ (~KeyLess(keys[i], keys[j]) /\ j < i)})
    IN  [p \in 1..n |-> CHOOSE i \in 1..n : rank(i) = p]

Permute(s, perm) == [p \in 1..Len(perm) |-> s[perm[p]]]

Reversed(s) == [i \in 1..Len(s) |-> s[Len(s) + 1 - i]]

\* The atom of a Python value used as a sort key
Atom(x) == IF x.t = "str" THEN x.v ELSE IF x.t = "bool"
           THEN (IF x.v THEN <<1>> ELSE <<0>>) ELSE <<x.v>>

---------------------------------------------------------------------------
(* The data handed over by DataScraper *)

ChrP == 80
ChrG == 71
ChrU == 85
Chr0 == 48

\* DataScraper.pguSort
pguSort == (ChrP :> 1) @@ (ChrG :> 2) @@ (ChrU :> 3)

\* DataScraper.charts: the catalogue, keyed by chart id ("G5", "U10")
Charts ==
    (1 :> [id |-> 1, song |-> <<115>>, artist |-> <<97>>, diff |-> 21,
           pguDiff |-> <<ChrG, Chr0 + 5>>, pdnDiff |-> 21, baseScore |-> 100])
    @@ (2 :> [id |-> 2, song |-> <<116>>, artist |-> <<98>>, diff |-> 64,
              pguDiff |-> <<ChrU, Chr0 + 1, Chr0>>, pdnDiff |-> 64,
              baseScore |-> 50])

\* Chart ids a pass may carry: the catalogue's and one it does not hold
LevelIds == DOMAIN Charts \cup {3}

\* DataScraper.players
Players ==
    <<[id |-> 1, name |-> <<97>>, country |-> <<75, 82>>, isBanned |-> FALSE],
      [id |-> 2, name |-> <<98>>, country |-> <<75, 82>>, isBanned |-> FALSE],
      [id |-> 3, name |-> <<99>>, country |-> <<75, 82>>, isBanned |-> TRUE]>>

PlayerName(id) == Players[id].name

\* vidUploadTime: a well-formed "%Y-%m-%dT%H:%M:%S.fff" string, as its
\* seconds since 2022-01-01T00:00:00 and its fraction, or anything else
TimeStr(sec, frac) == PyStr([sec |-> sec, frac |-> frac])
UploadTimes == {TimeStr(1, 0), TimeStr(1, 5), TimeStr(2, 0), PyNone}

\* Pass["vidUploadTime"].split(".")[0], then datetime.strptime
ParseDate(t) ==
    IF t.t = "str" THEN Ok(t.v.sec) ELSE Raise("AttributeError")

\* datetime(2022, 1, 1), and datetime.today() while pass number i is read
FallbackDate == 0
Today(i) == 1000 + i

PipeJudgements ==
    {PyDict([k \in JNameSet |->
                IF k = "perfect" THEN PyInt(1)
                ELSE IF k = "earlyDouble" THEN PyInt(e) ELSE PyInt(0)])
        : e \in 0..MaxCount}

PassOf(pid, lid, j, t, del) ==
    [id |-> 0, playerId |-> pid, player |-> PlayerName(pid), levelId |-> lid,
     speed |-> PyFloat(100), judgements |-> j, isNoHoldTap |-> FALSE,
     isWorldsFirst |-> FALSE, vidUploadTime |-> t, vidLink |-> EmptyStr,
     feelingRating |-> EmptyStr, is12K |-> FALSE, is16K |-> FALSE,
     isDeleted |-> del]

PassRecords ==
    {[PassOf(pid, lid, j, t, del) EXCEPT !.is12K = k] :
        pid \in {1, 2}, lid \in LevelIds, j \in PipeJudgements,
        t \in UploadTimes, del \in BOOLEAN, k \in BOOLEAN}

\* A pass list: every pass carries its position as its id
WithIds(s) == [i \in 1..Len(s) |-> [s[i] EXCEPT !.id = i]]

---------------------------------------------------------------------------
(* Search.py: searchByChart *)

Falsy(x) == x.t = "NoneType" \/ (x.t \in {"int", "float"} /\ x.v = 0)

\* The mapping searchByChart hands to ResultObj.updateParams
ChartScoreInput(Pass, chart, date, judgements_array, score, xacc) ==
    ("player" :> PyStr(Pass.player))
    @@ ("playerId" :> PyInt(Pass.playerId))
    @@ ("song" :> PyStr(chart.song))
    @@ ("artist" :> PyStr(chart.artist))
    @@ ("score" :> PyFloat(score))
    @@ ("pguDiff" :> PyStr(chart.pguDiff))
    @@ ("Xacc" :> PyFloat(xacc))
    @@ ("speed" :> IF Falsy(Pass.speed) THEN PyFloat(100) ELSE Pass.speed)
    @@ ("isWorldsFirst" :> PyBool(FALSE))
    @@ ("vidLink" :> PyStr(Pass.vidLink))
    @@ ("feelingRating" :> PyStr(Pass.feelingRating))
    @@ ("date" :> PyInt(date))
    @@ ("is12K" :> PyBool(Pass.is12K))
    @@ ("is16K" :> PyBool(Pass.is16K))
    @@ ("isNoHold" :> PyBool(Pass.isNoHoldTap))
    @@ ("judgements" :> judgements_array)
    @@ ("pdnDiff" :> PyInt(chart.pdnDiff))
    @@ ("chartId" :> PyInt(chart.id))
    @@ ("passId" :> PyInt(Pass.id))
    @@ ("baseScore" :> PyInt(chart.baseScore))
    @@ ("isDeleted" :> PyBool(Pass.isDeleted))

\* ResultObj().updateParams(mapping): the record, or the exception
NewResultObj(inp) ==
    IF ResultObj_updateParams(ResultObjInit, inp).out.ok
    THEN Ok(ResultObj_updateParams(ResultObjInit, inp).params)
    ELSE ResultObj_updateParams(ResultObjInit, inp).out

\* The body of searchByChart's loop for the i-th pass of the chart: the
\* record appended to Scores, or the exception raised
ChartRecordOf(Pass, chart, date, judgements_array, score, xacc) ==
    IF ~score.ok THEN score
    ELSE IF ~xacc.ok THEN xacc
    ELSE NewResultObj(ChartScoreInput(Pass, chart, date, judgements_array,
                                      score.v, xacc.v))

JudgementsArray(Pass) ==
    PyList([k \in 1..Len(JNames) |-> Pass.judgements.v[JNames[k]]])

DateOr(parsed, fallback) == IF parsed.ok THEN parsed.v ELSE fallback

ChartRecord(Pass, chart, i) ==
    IF Pass.judgements.t # "dict" THEN Raise("TypeError")
    ELSE IF ~(JNameSet \subseteq DOMAIN Pass.judgements.v) THEN Raise("KeyError")
    ELSE ChartRecordOf(Pass, chart,
             DateOr(ParseDate(Pass.vidUploadTime), Today(i)),
             JudgementsArray(Pass), getScoreV2(Pass, chart),
             getXacc(JudgementsArray(Pass)))

RECURSIVE ChartScores(_, _, _, _)
AppendRecord(validPasses, chart, i, Scores, rec) ==
    IF ~rec.ok THEN rec
    ELSE ChartScores(validPasses, chart, i + 1, Append(Scores, rec.v))

ChartScores(validPasses, chart, i, Scores) ==
    IF i > Len(validPasses) THEN Ok(Scores)
    ELSE AppendRecord(validPasses, chart, i, Scores,
                      ChartRecord(validPasses[i], chart, i))

\* Reading a field of every record: ResultObj.__getitem__
HasItem(Scores, key) == \A i \in 1..Len(Scores) : key \in DOMAIN Scores[i]

ScoreKeys(Scores) == [i \in 1..Len(Scores) |-> <<Atom(Scores[i]["score"])>>]
DateKeys(Scores) == [i \in 1..Len(Scores) |-> <<Atom(Scores[i]["date"])>>]

\* list(reversed(sorted(Scores, key=lambda x: x["score"])))
SortedByScoreDesc(Scores) ==
    Reversed(Permute(Scores, SortPerm(ScoreKeys(Scores))))

\* The first occurrence of every playerId, in order
RECURSIVE DedupByPlayer(_, _)
DedupByPlayer(Scores, usedIds) ==
    IF Scores = <<>> THEN <<>>
    ELSE IF Head(Scores)["playerId"].v \notin usedIds
    THEN <<Head(Scores)>> \o DedupByPlayer(Tail(Scores),
                                 usedIds \cup {Head(Scores)["playerId"].v})
    ELSE DedupByPlayer(Tail(Scores), usedIds)

\* datedScores[0]["isWorldsFirst"] = True: the record is shared with Scores
MarkFirst(Scores, datedPerm) ==
    [Scores EXCEPT ![datedPerm[1]] =
        [@ EXCEPT !["isWorldsFirst"] = PyBool(TRUE)]]

\* The leaderboard of the sorted Scores
ChartBoard(Scores, datedPerm, getDates) ==
    IF getDates THEN Permute(MarkFirst(Scores, datedPerm), datedPerm)
    ELSE DedupByPlayer(MarkFirst(Scores, datedPerm), {})

ChartResult(Scores, getDates) ==
    Ok(ChartBoard(Scores, SortPerm(DateKeys(Scores)), getDates))

ChartSorted(built, getDates) ==
    IF ~built.ok THEN built
    ELSE ChartResult(SortedByScoreDesc(built.v), getDates)

PassesOfChart(ps, chartId) == SelectSeq(ps, LAMBDA P : P.levelId = chartId)

\* searchByChart(chartId, data=data, getDates=getDates)
searchByChart(chartId, ps, getDates) ==
    IF chartId \notin DOMAIN Charts THEN Ok(<<>>)
    ELSE IF PassesOfChart(ps, chartId) = <<>> THEN Ok(<<>>)
    ELSE ChartSorted(ChartScores(PassesOfChart(ps, chartId), Charts[chartId],
                                 1, <<>>),
                     getDates)

---------------------------------------------------------------------------
(* Search.py: searchByPlayer *)

\* The mapping searchByPlayer hands to ResultObj.updateParams
PlayerScoreInput(Pass, player, chart, date, speed, score, xacc) ==
    ("player" :> PyStr(Pass.player))
    @@ ("playerId" :> PyInt(player.id))
    @@ ("song" :> PyStr(chart.song))
    @@ ("artist" :> PyStr(chart.artist))
    @@ ("score" :> PyFloat(score))
    @@ ("pguDiff" :> PyStr(chart.pguDiff))
    @@ ("Xacc" :> PyFloat(xacc))
    @@ ("speed" :> speed)
    @@ ("isWorldsFirst" :> PyBool(Pass.isWorldsFirst))
    @@ ("vidLink" :> PyStr(Pass.vidLink))
    @@ ("feelingRating" :> PyStr(Pass.feelingRating))
    @@ ("date" :> PyInt(date))
    @@ ("is12K" :> PyBool(Pass.is12K))
    @@ ("is16K" :> PyBool(Pass.is16K))
    @@ ("isNoHold" :> PyBool(Pass.isNoHoldTap))
    @@ ("judgements" :> Pass.judgements)
    @@ ("pdnDiff" :> PyInt(chart.pdnDiff))
    @@ ("chartId" :> PyInt(chart.id))
    @@ ("passId" :> PyInt(Pass.id))
    @@ ("baseScore" :> PyInt(chart.baseScore))
    @@ ("isDeleted" :> PyBool(Pass.isDeleted))

\* The record searchByPlayer appends for a pass with a known chart, or the
\* exception raised
PlayerRecordOf(Pass, player, chart, date, speed, score, xacc) ==
    IF ~score.ok THEN score
    ELSE IF ~xacc.ok THEN xacc
    ELSE NewResultObj(PlayerScoreInput(Pass, player, chart, date, speed,
                                       score.v, xacc.v))

PlayerRecord(Pass, player, chart) ==
    PlayerRecordOf(Pass, player, chart,
        DateOr(ParseDate(Pass.vidUploadTime), FallbackDate),
        IF Falsy(Pass.speed) THEN PyFloat(100) ELSE Pass.speed,
        getScoreV2(Pass, chart), getXacc(Pass.judgements))

IsDigits(s) == s # <<>> /\ \A i \in 1..Len(s) : s[i] \in Chr0..(Chr0 + 9)

\* int() of a digit string, str() of a natural number
RECURSIVE IntOf(_)
IntOf(s) == IF s = <<>> THEN 0
            ELSE 10 * IntOf(SubSeq(s, 1, Len(s) - 1)) + (s[Len(s)] - Chr0)

RECURSIVE StrOf(_)
StrOf(n) == IF n < 10 THEN <<Chr0 + n>>
            ELSE StrOf(n \div 10) \o <<Chr0 + (n % 10)>>

\* The try block that tracks topDiff and top12kDiff; any exception in it is
\* swallowed and leaves both as they were
Raised(top, pgu, num) ==
    IF pguSort[top[1]] = pguSort[pgu] /\ top[2] < num
    THEN <<top[1], num>> ELSE top

Lifted(top, pgu, num, applies) ==
    IF pguSort[top[1]] < pguSort[pgu] /\ applies THEN <<pgu, num>> ELSE top

Tracked(top, pgu, num, is12K) ==
    [topDiff |-> Raised(Lifted(top.topDiff, pgu, num, TRUE), pgu, num),
     top12kDiff |->
        IF is12K
        THEN Raised(Lifted(top.top12kDiff, pgu, num, TRUE), pgu, num)
        ELSE top.top12kDiff]

TrackDiff(top, Pass, chart) ==
    IF Pass.isDeleted THEN top
    ELSE IF chart.pguDiff = <<>> \/ ~IsDigits(Tail(chart.pguDiff))
            \/ Head(chart.pguDiff) \notin DOMAIN pguSort
    THEN top
    ELSE Tracked(top, Head(chart.pguDiff), IntOf(Tail(chart.pguDiff)),
                 Pass.is12K)

\* The loop over playerPasses: Scores, firstPasses and the trackers, or the
\* exception that ends it
RECURSIVE PlayerLoop(_, _, _)
PlayerStep(playerPasses, player, acc, rec, top) ==
    IF ~rec.ok THEN rec
    ELSE PlayerLoop(Tail(playerPasses), player,
            [Scores |-> Append(acc.Scores, rec.v),
             firstPasses |-> acc.firstPasses
                 + (IF Head(playerPasses).isWorldsFirst THEN 1 ELSE 0),
             topDiff |-> top.topDiff,
             top12kDiff |-> top.top12kDiff])

PlayerLoop(playerPasses, player, acc) ==
    IF playerPasses = <<>> THEN Ok(acc)
    ELSE IF Head(playerPasses).levelId \notin DOMAIN Charts
    THEN PlayerLoop(Tail(playerPasses), player, acc)
    ELSE PlayerStep(playerPasses, player, acc,
            PlayerRecord(Head(playerPasses), player,
                         Charts[Head(playerPasses).levelId]),
            TrackDiff([topDiff |-> acc.topDiff, top12kDiff |-> acc.top12kDiff],
                      Head(playerPasses), Charts[Head(playerPasses).levelId]))

\* The first occurrence of every chartId, in order (12K records only when
\* TwvKOnly)
RECURSIVE DedupByChart(_, _, _)
DedupByChart(Scores, usedIds, TwvKOnly) ==
    IF Scores = <<>> THEN <<>>
    ELSE IF Head(Scores)["chartId"].v \notin usedIds
            /\ (~TwvKOnly \/ Head(Scores)["is12K"].v)
    THEN <<Head(Scores)>> \o DedupByChart(Tail(Scores),
                                 usedIds \cup {Head(Scores)["chartId"].v},
                                 TwvKOnly)
    ELSE DedupByChart(Tail(Scores), usedIds, TwvKOnly)

FirstN(l) == SubSeq(l, 1, IF Len(l) < TopN THEN Len(l) ELSE TopN)

AvgAcc(XaccList) ==
    IF XaccList # <<>> THEN SumSeq(FirstN(XaccList)) \div Len(FirstN(XaccList))
    ELSE 0

DiffStr(top) == <<top[1]>> \o StrOf(top[2])

ScoresOf(records) == [i \in 1..Len(records) |-> records[i]["score"].v]

\* The mapping searchByPlayer hands to PlayerObj.updateParams
PlayerInput(player, acc, validScores, rankedScore, sums) ==
    ("player" :> PyStr(player.name))
    @@ ("playerId" :> PyInt(player.id))
    @@ ("rankedScore" :> PyFloat(rankedScore))
    @@ ("generalScore" :> PyFloat(sums.generalScore))
    @@ ("ppScore" :> PyFloat(sums.ppScore))
    @@ ("wfScore" :> PyFloat(sums.wfScore))
    @@ ("12kScore" :> PyFloat(sums.TvwKScore))
    @@ ("avgXacc" :> PyFloat(AvgAcc([i \in 1..Len(validScores) |->
                                        validScores[i]["Xacc"].v])))
    @@ ("totalPasses" :> PyInt(Len(validScores)))
    @@ ("universalPasses" :>
            PyInt(Cardinality({i \in 1..Len(validScores) :
                      Head(validScores[i]["pguDiff"].v) = ChrU})))
    @@ ("WFPasses" :> PyInt(acc.firstPasses))
    @@ ("topDiff" :> PyStr(DiffStr(acc.topDiff)))
    @@ ("top12kDiff" :> PyStr(DiffStr(acc.top12kDiff)))
    @@ ("country" :> PyStr(player.country))

\* Player.get(), with the scores attached by addScores when showCharts
PlayerGet(r, validScores, showCharts) ==
    IF ~r.out.ok THEN r.out
    ELSE Ok([params |-> r.params,
             allScores |-> IF showCharts THEN validScores ELSE <<>>])

\* The statistics of the non-deleted survivors, and the record assembled
PlayerStats(player, acc, validScores, notDeletedScores, showCharts) ==
    PlayerGet(PlayerObj_updateParams(PlayerObjInit,
                  PlayerInput(player, acc, validScores,
                              getRankedScore(ScoresOf(notDeletedScores)),
                              calculateScores(notDeletedScores))),
              validScores, showCharts)

PlayerSurvivors(player, acc, validScores, showCharts) ==
    PlayerStats(player, acc, validScores,
                SelectSeq(validScores, LAMBDA S : ~S["isDeleted"].v),
                showCharts)

PlayerSorted(player, acc, Scores, TwvKOnly, showCharts) ==
    IF ~HasItem(Scores, "chartId") THEN Raise("KeyError")
    ELSE PlayerSurvivors(player, acc, DedupByChart(Scores, {}, TwvKOnly),
                         showCharts)

PlayerLooped(player, loop, TwvKOnly, showCharts) ==
    IF ~loop.ok THEN loop
    ELSE PlayerSorted(player, loop.v, SortedByScoreDesc(loop.v.Scores),
                      TwvKOnly, showCharts)

PassesOfPlayer(ps, player) == SelectSeq(ps, LAMBDA P : P.playerId = player.id)

\* searchByPlayer(player, data=data, TwvKOnly=TwvKOnly, showCharts=showCharts):
\* the returned player mapping, params and allScores
searchByPlayer(player, ps, TwvKOnly, showCharts) ==
    PlayerLooped(player,
        PlayerLoop(PassesOfPlayer(ps, player), player,
            [Scores |-> <<>>, firstPasses |-> 0,
             topDiff |-> <<ChrP, 1>>, top12kDiff |-> <<ChrP, 1>>]),
        TwvKOnly, showCharts)

---------------------------------------------------------------------------
(* Search.py: searchAllPlayers *)

\* Utils.allPassSortPriority
allPassSortPriority ==
    <<"rankedScore", "generalScore", "universalPasses", "avgXacc", "ppScore",
      "12kScore", "WFPasses", "totalPasses", "topDiff", "top12kDiff",
      "player">>

InList(x, l) == \E i \in 1..Len(l) : l[i] = x

\* list.remove(x): the list without its first x
RemoveFirst(l, x) ==
    LET at == CHOOSE i \in 1..Len(l) : l[i] = x /\ \A j \in 1..(i - 1) : l[j] # x
    IN  SubSeq(l, 1, at - 1) \o SubSeq(l, at + 1, Len(l))

\* [x[criteria] for criteria in sortCriteria]
SortKey(x, sortCriteria) ==
    [c \in 1..Len(sortCriteria) |-> Atom(x[sortCriteria[c]])]

BoardKeys(playerLeaderboard, sortCriteria) ==
    [i \in 1..Len(playerLeaderboard) |->
        SortKey(playerLeaderboard[i], sortCriteria)]

SortedBoard(result, reverse) == IF reverse THEN Reversed(result) ELSE result

\* The sort that ends searchAllPlayers
SortLeaderboard(playerLeaderboard, sortBy, reverse) ==
    IF ~InList(sortBy, allPassSortPriority) THEN Raise("ValueError")
    ELSE Ok(SortedBoard(
                Permute(playerLeaderboard,
                    SortPerm(BoardKeys(playerLeaderboard,
                        <<sortBy>> \o RemoveFirst(allPassSortPriority, sortBy)))),
                reverse))

\* The loop over data.players: the leaderboard collected, or the exception
RECURSIVE CollectPlayers(_, _, _, _)
Collected(players, ps, TwvKOnly, playerLeaderboard, search) ==
    IF ~search.ok THEN search
    ELSE IF ~Falsy(search.v.params["avgXacc"])
    THEN CollectPlayers(Tail(players), ps, TwvKOnly,
                        Append(playerLeaderboard, search.v.params))
    ELSE CollectPlayers(Tail(players), ps, TwvKOnly, playerLeaderboard)

CollectPlayers(players, ps, TwvKOnly, playerLeaderboard) ==
    IF players = <<>> THEN Ok(playerLeaderboard)
    ELSE IF Head(players).isBanned
    THEN CollectPlayers(Tail(players), ps, TwvKOnly, playerLeaderboard)
    ELSE Collected(players, ps, TwvKOnly, playerLeaderboard,
                   searchByPlayer(Head(players), ps, TwvKOnly, TRUE))

SortCollected(collected, sortBy, reverse) ==
    IF ~collected.ok THEN collected
    ELSE SortLeaderboard(collected.v, sortBy, reverse)

\* searchAllPlayers(sortBy=sortBy, data=data, TwvKOnly=TwvKOnly, reverse=reverse)
searchAllPlayers(ps, sortBy, TwvKOnly, reverse) ==
    SortCollected(CollectPlayers(Players, ps, TwvKOnly, <<>>), sortBy, reverse)

---------------------------------------------------------------------------
(* The pipelines on a data snapshot.  The engine keeps no state between     *)
(* calls: a behaviour is one snapshot and one call on it.                   *)

Init ==
    /\ \E n \in 0..MaxPasses :
        \E s \in [1..n -> PassRecords] : passes = WithIds(s)
    /\ call = [op |-> "none"]
    /\ ret = Pending
    /\ resultObj = ResultObjInit
    /\ playerObj = PlayerObjInit
    /\ board = <<>>

SearchByChart ==
    /\ call.op = "none"
    /\ \E chartId \in LevelIds, getDates \in BOOLEAN :
        /\ call' = [op |-> "searchByChart", chartId |-> chartId,
                    getDates |-> getDates]
        /\ ret' = searchByChart(chartId, passes, getDates)
    /\ UNCHANGED <<passes, resultObj, playerObj, board>>

SearchByPlayer ==
    /\ call.op = "none"
    /\ \E p \in 1..Len(Players), TwvKOnly \in BOOLEAN :
        /\ call' = [op |-> "searchByPlayer", player |-> Players[p],
                    TwvKOnly |-> TwvKOnly]
        /\ ret' = searchByPlayer(Players[p], passes, TwvKOnly, TRUE)
    /\ UNCHANGED <<passes, resultObj, playerObj, board>>

SearchAllPlayers ==
    /\ call.op = "none"
    /\ \E sortBy \in {"rankedScore", "topDiff"}, reverse \in BOOLEAN :
        /\ call' = [op |-> "searchAllPlayers", sortBy |-> sortBy,
                    reverse |-> reverse]
        /\ ret' = searchAllPlayers(passes, sortBy, FALSE, reverse)
    /\ UNCHANGED <<passes, resultObj, playerObj, board>>

Next == SearchByChart \/ SearchByPlayer \/ SearchAllPlayers

Spec == Init /\ [][Next]_vars

---------------------------------------------------------------------------
(* The leaderboard sort on a collected leaderboard: player mappings as      *)
(* PlayerObj.get() returns them, one per playerId, every field populated.   *)

BoardNames == {<<97>>, <<98>>}
BoardDiffs == {<<ChrG, Chr0 + 5>>, <<ChrP, Chr0 + 9>>}

BoardEntry(id, name, ranked, diff) ==
    ("player" :> PyStr(name))
    @@ ("playerId" :> PyInt(id))
    @@ ("rankedScore" :> PyFloat(ranked * Milli))
    @@ ("generalScore" :> PyFloat(ranked * Milli))
    @@ ("ppScore" :> PyFloat(0))
    @@ ("wfScore" :> PyFloat(0))
    @@ ("12kScore" :> PyFloat(0))
    @@ ("avgXacc" :> PyFloat(DefaultXacc))
    @@ ("totalPasses" :> PyInt(1))
    @@ ("universalPasses" :> PyInt(0))
    @@ ("WFPasses" :> PyInt(0))
    @@ ("topDiff" :> PyStr(diff))
    @@ ("top12kDiff" :> PyStr(<<ChrP, Chr0 + 1>>))
    @@ ("country" :> PyStr(<<75, 82>>))

BoardEntries ==
    {BoardEntry(id, name, ranked, diff) :
        id \in 1..(MaxBoard + 1), name \in BoardNames, ranked \in 1..2,
        diff \in BoardDiffs}

DistinctIds(b) ==
    \A i, j \in 1..Len(b) : i # j => b[i]["playerId"] # b[j]["playerId"]

InitBoard ==
    /\ \E n \in 0..MaxBoard :
        \E b \in [1..n -> BoardEntries] : DistinctIds(b) /\ board = b
    /\ passes = <<>>
    /\ call = [op |-> "none"]
    /\ ret = Pending
    /\ resultObj = ResultObjInit
    /\ playerObj = PlayerObjInit

SortBoard ==
    /\ call.op = "none"
    /\ \E sortBy \in {"rankedScore", "topDiff", "wfScore"}, reverse \in BOOLEAN :
        /\ call' = [op |-> "sortLeaderboard", sortBy |-> sortBy,
                    reverse |-> reverse]
        /\ ret' = SortLeaderboard(board, sortBy, reverse)
    /\ UNCHANGED <<passes, resultObj, playerObj, board>>

NextBoard == SortBoard

SpecBoard == InitBoard /\ [][NextBoard]_vars

---------------------------------------------------------------------------
(* Inputs of the calculator calls *)

Counts == {PyInt(n) : n \in 0..MaxCount}
JValues == Counts \cup {PyNone}

IntDicts == {PyDict(f) : f \in [JNameSet -> Counts]}
IntLists == {PyList(s) : s \in [1..Len(JNames) -> Counts]}

\* Named-field mappings: complete, or with one field missing
DictInputs ==
    {PyDict(f) : f \in UNION {[S -> JValues] :
                    S \in {JNameSet} \cup {JNameSet \ {k} : k \in JNameSet}}}

\* Seven-element arrays
ListInputs == {PyList(s) : s \in [1..Len(JNames) -> JValues]}

Speeds == {PyNone} \cup {PyFloat(c) : c \in {0, 90, 100, 105, 120, 170, 200, 250}}

\* Score lists (thousandths): one value throughout, but for at most one entry
ScoreLists ==
    {[i \in 1..n |-> IF i = p THEN w ELSE b] :
        n \in 0..MaxScores, p \in 0..MaxScores, b \in {0, 100000},
        w \in {50000, 250000}}

\* Judgements that spread the accuracy over [0, 1]: as the seven-element
\* array and as the named-field mapping
MtpVectors ==
    {<<PyInt(eD), PyInt(eS), PyInt(eP), PyInt(p), PyInt(0), PyInt(0), PyInt(0)>> :
        eD \in 0..(MaxCount + 1), eS \in 0..MaxCount, eP \in 0..MaxCount,
        p \in {0, 1, 11, 19, 20, 50}}

MtpInputs ==
    {PyList(v) : v \in MtpVectors}
    \cup {PyDict([k \in JNameSet |->
                v[CHOOSE i \in 1..Len(JNames) : JNames[i] = k]]) : v \in MtpVectors}

\* The fields of a chart the calculator reads
CalcCharts == {[diff |-> d, baseScore |-> 100] : d \in {21, 64}}

CalcIdle ==
    /\ passes = <<>>
    /\ resultObj = ResultObjInit
    /\ playerObj = PlayerObjInit
    /\ board = <<>>

\* A calculator call is drawn with its arguments; the actions apply it.
InitCalc ==
    /\ CalcIdle
    /\ ret = Pending
    /\ \/ \E j \in DictInputs : call = [op |-> "getXacc", judgements |-> j]
       \/ \E j \in ListInputs : call = [op |-> "getXacc", judgements |-> j]
       \/ \E speed \in Speeds, nh \in BOOLEAN, chart \in CalcCharts :
            \/ \E j \in IntDicts :
                call = [op |-> "getScoreV2", chartData |-> chart,
                        passData |-> [speed |-> speed, judgements |-> j,
                                      isNoHoldTap |-> nh]]
            \/ \E j \in IntLists :
                call = [op |-> "getScoreV2", chartData |-> chart,
                        passData |-> [speed |-> speed, judgements |-> j,
                                      isNoHoldTap |-> nh]]
       \/ \E scores \in ScoreLists :
            call = [op |-> "getRankedScore", scores |-> scores]
       \/ \E inp \in MtpInputs : call = [op |-> "getXaccMtp", inp |-> inp]

CallGetXacc ==
    /\ call.op = "getXacc"
    /\ ret = Pending
    /\ ret' = getXacc(call.judgements)
    /\ UNCHANGED <<passes, call, resultObj, playerObj, board>>

CallGetScoreV2 ==
    /\ call.op = "getScoreV2"
    /\ ret = Pending
    /\ ret' = getScoreV2(call.passData, call.chartData)
    /\ UNCHANGED <<passes, call, resultObj, playerObj, board>>

CallGetRankedScore ==
    /\ call.op = "getRankedScore"
    /\ ret = Pending
    /\ ret' = Ok(getRankedScore(call.scores))
    /\ UNCHANGED <<passes, call, resultObj, playerObj, board>>

CallGetXaccMtp ==
    /\ call.op = "getXaccMtp"
    /\ ret = Pending
    /\ ret' = getXaccMtp(call.inp)
    /\ UNCHANGED <<passes, call, resultObj, playerObj, board>>

NextCalc ==
    CallGetXacc \/ CallGetScoreV2 \/ CallGetRankedScore \/ CallGetXaccMtp

SpecCalc == InitCalc /\ [][NextCalc]_vars

---------------------------------------------------------------------------
(* Record updates: any mapping over a few schema keys and one key outside   *)
(* the schema, applied to one ResultObj and one PlayerObj.                  *)

UpdValues == {PyInt(n) : n \in 0..MaxCount} \cup {PyNone}

ResultUpdKeys == {"score", "isDeleted", "chartId"}
PlayerUpdKeys == {"topDiff", "allScores"}

UpdInputs(keys) == UNION {[S -> UpdValues] : S \in SUBSET keys}

InitUpd ==
    /\ passes = <<>>
    /\ board = <<>>
    /\ resultObj = ResultObjInit
    /\ playerObj = PlayerObjInit
    /\ call = [op |-> "none"]
    /\ ret = Pending

ResultUpdateParams ==
    \E inp \in UpdInputs(ResultUpdKeys) :
        LET r == ResultObj_updateParams(resultObj, inp)
        IN  /\ call' = [op |-> "ResultObj.updateParams", inp |-> inp]
            /\ resultObj' = r.params
            /\ ret' = r.out
            /\ UNCHANGED <<passes, playerObj, board>>

PlayerUpdateParams ==
    \E inp \in UpdInputs(PlayerUpdKeys) :
        LET r == PlayerObj_updateParams(playerObj, inp)
        IN  /\ call' = [op |-> "PlayerObj.updateParams", inp |-> inp]
            /\ playerObj' = r.params
            /\ ret' = r.out
            /\ UNCHANGED <<passes, resultObj, board>>

NextUpd == ResultUpdateParams \/ PlayerUpdateParams

SpecUpd == InitUpd /\ [][NextUpd]_vars

ResultSchema ==
    {"player", "playerId", "song", "artist", "score", "pguDiff", "Xacc",
     "speed", "isWorldsFirst", "vidLink", "feelingRating", "date", "is12K",
     "is16K", "isNoHold", "judgements", "pdnDiff", "levelId", "passId",
     "baseScore", "isDeleted"}

PlayerSchema ==
    {"player", "playerId", "rankedScore", "generalScore", "ppScore",
     "wfScore", "12kScore", "avgXacc", "totalPasses", "universalPasses",
     "WFPasses", "topDiff", "top12kDiff", "country"}

\* What an update of a record with the given schema must do
UpdateContract(schema, old, new, inp, out) ==
    /\ DOMAIN new = schema
    /\ IF DOMAIN inp \subseteq schema
       THEN /\ out.ok
            /\ \A k \in schema :
                    new[k] = IF k \in DOMAIN inp THEN inp[k] ELSE old[k]
       ELSE /\ ~out.ok
            /\ out.err = "ValueError"
            /\ new = old

\* C9: an update whose mapping holds a key outside the record's schema
\* raises and leaves every field unchanged, the valid keys of the mapping
\* included; an update with schema keys only sets exactly those keys.
C9_UpdateAllOrNothing ==
    [][ /\ call'.op = "ResultObj.updateParams"
            => UpdateContract(ResultSchema, resultObj, resultObj',
                              call'.inp, ret')
        /\ call'.op = "PlayerObj.updateParams"
            => UpdateContract(PlayerSchema, playerObj, playerObj',
                              call'.inp, ret') ]_vars

\* A rejected mapping held a schema key with a new value, after an earlier
\* update had been applied
C9_Witness ==
    /\ call.op = "ResultObj.updateParams"
    /\ ~ret.ok
    /\ resultObj # ResultObjInit
    /\ \E k \in DOMAIN call.inp \cap ResultSchema : call.inp[k] # resultObj[k]

---------------------------------------------------------------------------
(* Claims about the pipelines *)

Done(op) == call.op = op /\ ret.err # "pending"

SetMax(S) == CHOOSE x \in S : \A y \in S : y <= x
SetMin(S) == CHOOSE x \in S : \A y \in S : x <= y

\* scoreV2 of the pass at position i of the snapshot, on its chart
PassScore(i) == getScoreV2(passes[i], Charts[passes[i].levelId]).v

\* The positions of the passes of a player that carry a catalogued chart id
KnownPasses(pid) ==
    {i \in 1..Len(passes) :
        passes[i].playerId = pid /\ passes[i].levelId \in DOMAIN Charts}

PassesOn(pid, c) == {i \in KnownPasses(pid) : passes[i].levelId = c}
ChartsPlayed(pid) == {passes[i].levelId : i \in KnownPasses(pid)}
BestScore(pid, c) == SetMax({PassScore(i) : i \in PassesOn(pid, c)})
BestPasses(pid, c) ==
    {i \in PassesOn(pid, c) : PassScore(i) = BestScore(pid, c)}

RecordsWith(recs, key, x) == {k \in 1..Len(recs) : recs[k][key].v = x}

\* C1: after the dedup of searchByPlayer in default mode the surviving list
\* holds exactly one record for each chart on which the player has a pass
\* with a known chart id, and its score is the player's maximum scoreV2 on
\* that chart.
C1_OneBestRecordPerChart ==
    (Done("searchByPlayer") /\ ~call.TwvKOnly)
    => /\ ret.ok
       /\ \A c \in ChartsPlayed(call.player.id) :
            /\ Cardinality(RecordsWith(ret.v.allScores, "chartId", c)) = 1
            /\ \A k \in RecordsWith(ret.v.allScores, "chartId", c) :
                 ret.v.allScores[k]["score"].v = BestScore(call.player.id, c)
       /\ \A k \in 1..Len(ret.v.allScores) :
            ret.v.allScores[k]["chartId"].v \in ChartsPlayed(call.player.id)

\* C2: when several passes of the player on one chart share the maximum
\* scoreV2, the dedup of searchByPlayer keeps the one that comes first in
\* the input pass list.
C2_TieKeepsFirstEncountered ==
    (Done("searchByPlayer") /\ ~call.TwvKOnly
        /\ \E c \in ChartsPlayed(call.player.id) :
              Cardinality(BestPasses(call.player.id, c)) > 1)
    => /\ ret.ok
       /\ \A c \in ChartsPlayed(call.player.id) :
            \A k \in RecordsWith(ret.v.allScores, "chartId", c) :
                ret.v.allScores[k]["passId"].v
                    = SetMin(BestPasses(call.player.id, c))

\* The positions of the passes of a chart
ChartPasses(c) == {i \in 1..Len(passes) : passes[i].levelId = c}

ChartCase(getDates) ==
    /\ Done("searchByChart")
    /\ call.getDates = getDates
    /\ call.chartId \in DOMAIN Charts
    /\ ChartPasses(call.chartId) # {}

\* C3: for a chart with at least one pass the leaderboard searchByChart
\* returns in default mode holds exactly one entry flagged isWorldsFirst.
C3_ExactlyOneWorldsFirst ==
    ChartCase(FALSE)
    => /\ ret.ok
       /\ Cardinality({k \in 1..Len(ret.v) : ret.v[k]["isWorldsFirst"].v}) = 1

PlayersOn(c) == {passes[i].playerId : i \in ChartPasses(c)}
BestOn(c, pid) ==
    SetMax({PassScore(i) : i \in {n \in ChartPasses(c) : passes[n].playerId = pid}})

\* C4: for a chart with at least one pass searchByChart in default mode
\* returns one record per distinct playerId of the chart's passes, each with
\* that player's maximum score on the chart, ordered by score non-increasing.
C4_OneBestRecordPerPlayer ==
    ChartCase(FALSE)
    => /\ ret.ok
       /\ \A pid \in PlayersOn(call.chartId) :
            /\ Cardinality(RecordsWith(ret.v, "playerId", pid)) = 1
            /\ \A k \in RecordsWith(ret.v, "playerId", pid) :
                 ret.v[k]["score"].v = BestOn(call.chartId, pid)
       /\ \A k \in 1..Len(ret.v) : ret.v[k]["playerId"].v \in PlayersOn(call.chartId)
       /\ \A k \in 1..(Len(ret.v) - 1) :
            ret.v[k]["score"].v >= ret.v[k + 1]["score"].v

Parseable(i) == passes[i].vidUploadTime.t = "str"
Stamp(i) == <<passes[i].vidUploadTime.v.sec, passes[i].vidUploadTime.v.frac>>

DistinctStamps(c) ==
    /\ \A i \in ChartPasses(c) : Parseable(i)
    /\ \A i, j \in ChartPasses(c) : i # j => Stamp(i) # Stamp(j)

Earliest(c) ==
    CHOOSE i \in ChartPasses(c) :
        \A j \in ChartPasses(c) : j # i => LexLess(Stamp(i), Stamp(j))

\* C5: searchByChart does not abort on an unparseable upload timestamp, and
\* for a chart whose passes have pairwise distinct parseable timestamps
\* exactly one record is flagged isWorldsFirst: the pass with the minimum
\* timestamp, whatever the order of the pass list.
C5_EarliestPassIsWorldsFirst ==
    ChartCase(TRUE)
    => /\ ret.ok
       /\ DistinctStamps(call.chartId)
            => \A k \in 1..Len(ret.v) :
                 ret.v[k]["isWorldsFirst"].v
                    <=> ret.v[k]["passId"].v = Earliest(call.chartId)

\* The loop of searchByPlayer on the snapshot
LoopOf(player) ==
    PlayerLoop(PassesOfPlayer(passes, player), player,
        [Scores |-> <<>>, firstPasses |-> 0,
         topDiff |-> <<ChrP, 1>>, top12kDiff |-> <<ChrP, 1>>])

\* C10: searchByPlayer drops the passes whose chart id is unknown, builds one
\* record for every other pass of the player and returns the player record
\* without raising: the fields it writes are within the ResultObj schema.
C10_PipelineNeverRaises ==
    Done("searchByPlayer")
    => /\ ret.ok
       /\ LoopOf(call.player).ok
       /\ Len(LoopOf(call.player).v.Scores)
            = Cardinality(KnownPasses(call.player.id))

RankedCriteria == <<"rankedScore">> \o RemoveFirst(allPassSortPriority, "rankedScore")

\* C8: the leaderboard sort with primary key rankedScore and the fixed
\* tie-break list is a strict total order over players: two players with
\* distinct playerId and every tie-break field populated never have equal
\* composite keys, so the sorted order is the same for every input order.
C8_SortIsStrictTotalOrder ==
    (Done("sortLeaderboard") /\ call.sortBy = "rankedScore")
    => /\ ret.ok
       /\ \A i, j \in 1..Len(board) :
            i # j => SortKey(board[i], RankedCriteria)
                        # SortKey(board[j], RankedCriteria)
       /\ ret = SortLeaderboard(Reversed(board), "rankedScore", call.reverse)

---------------------------------------------------------------------------
(* Claims about the calculator *)

\* The seven judgement values of an input in bucket order, when all present
HasSeven(j) ==
    IF j.t = "dict" THEN JNameSet \subseteq DOMAIN j.v ELSE Len(j.v) = Len(JNames)

SevenOf(j) ==
    IF j.t = "dict" THEN [i \in 1..Len(JNames) |-> j.v[JNames[i]]] ELSE j.v

AllZeroVector(j) ==
    HasSeven(j) /\ \A i \in 1..Len(JNames) : SevenOf(j)[i] = PyInt(0)

\* A field is missing or holds something that is not a number
MalformedVector(j) ==
    \/ ~HasSeven(j)
    \/ \E i \in 1..Len(JNames) : ~IsNumber(SevenOf(j)[i])

\* C6: accuracy returns exactly 0.95 and does not raise for the all-zero
\* judgement vector and for every malformed input (a missing field, a
\* non-numeric field), for the named-field mapping and for the array.
C6_FallbackIsDefault ==
    (call.op = "getXacc" /\ ret # Pending
        /\ (AllZeroVector(call.judgements) \/ MalformedVector(call.judgements)))
    => (ret.ok /\ ret.v = DefaultXacc)

\* The multiplier scoreV2 is specified to apply to a pass with integer counts
SpecifiedMtp(passData) ==
    LET c == SevenOf(passData.judgements)
        tileCount == c[2].v + c[3].v + c[4].v + c[5].v + c[6].v
        mtp == getScoreV2Mtp(tileCount, c)
    IN  IF passData.isNoHoldTap THEN FMul(mtp, 900) ELSE mtp

\* C7: for a pass with seven integer counts in the representation that
\* score() accepts, scoreV2 returns score * missPenaltyMultiplier(tileCount,
\* earlyDouble) (times 0.9 for isNoHoldTap) and does not raise.
C7_MissPenaltyApplied ==
    (call.op = "getScoreV2" /\ ret # Pending
        /\ getScore(call.passData, call.chartData).ok)
    => (ret.ok /\ ret.v = FMul(getScore(call.passData, call.chartData).v,
                               SpecifiedMtp(call.passData)))

\* The sum of 0.9^i * scores[i] over the indices i (from 0) of the set I
RECURSIVE DecaySum(_, _)
DecaySum(scores, I) ==
    IF I = {} THEN 0
    ELSE LET i == CHOOSE x \in I : TRUE
         IN  FMul(DecayWeight(i), scores[i + 1]) + DecaySum(scores, I \ {i})

\* C11: rankedScore on a score list of length k is the sum over the indices
\* i in 0..min(20,k)-1 of 0.9^i * scores[i]: k terms when k < 20, 20 terms
\* when k >= 20; entries at index 20 or later never change the result and
\* the empty list gives 0.
C11_RankedScoreUsesTopTwenty ==
    (call.op = "getRankedScore" /\ ret.err # "pending")
    => /\ ret.ok
       /\ ret.v = DecaySum(call.scores,
                    {i \in 0..(Len(call.scores) - 1) : i < 20})
       /\ Len(call.scores) = 0 => ret.v = 0

C11_Witness ==
    /\ call.op = "getRankedScore"
    /\ ret.ok
    /\ Len(call.scores) > 20
    /\ call.scores[21] > 0
    /\ ret.v > 0

\* The accuracy (millionths) of a judgement input on which getXacc returns
AccuracyOf(inp) == getXacc(inp).v

\* C13: accuracyMultiplier returns 1 for every accuracy below 0.95, returns
\* 10 only when the accuracy is exactly 1.0, is monotonically non-decreasing
\* on [0.95, 1.0) and has a value for every accuracy in [0, 1].
C13_XaccMtpCurve ==
    (call.op = "getXaccMtp" /\ ret.err # "pending" /\ getXacc(call.inp).ok)
    => /\ ret.ok
       /\ ret.v # NoneMtp
       /\ AccuracyOf(call.inp) < 950000 => ret.v = 1000
       /\ ret.v = 10000 <=> AccuracyOf(call.inp) = 1000000
       /\ \A b \in MtpInputs :
            (/\ getXacc(b).ok
             /\ 950000 <= AccuracyOf(call.inp)
             /\ AccuracyOf(call.inp) <= AccuracyOf(b)
             /\ AccuracyOf(b) < 1000000)
            => ret.v <= getXaccMtp(b).v

C13_Witness ==
    /\ call.op = "getXaccMtp"
    /\ ret.ok
    /\ AccuracyOf(call.inp) >= 950000
    /\ \E b \in MtpInputs :
        /\ getXacc(b).ok
        /\ AccuracyOf(call.inp) < AccuracyOf(b)
        /\ AccuracyOf(b) < 1000000
        /\ ret.v < getXaccMtp(b).v

\* The difficulty order: tier P < G < U, then the higher numeric rank
DiffRank(pguDiff) == <<pguSort[Head(pguDiff)], IntOf(Tail(pguDiff))>>

ParseableDiff(pguDiff) ==
    pguDiff # <<>> /\ Head(pguDiff) \in DOMAIN pguSort /\ IsDigits(Tail(pguDiff))

\* The difficulties of the player's non-deleted passes with a known chart
\* and a parseable difficulty, of all of them or of the is12K ones only
DiffsOf(pid, only12K) ==
    {Charts[passes[i].levelId].pguDiff :
        i \in {n \in KnownPasses(pid) :
                  /\ ~passes[n].isDeleted
                  /\ ParseableDiff(Charts[passes[n].levelId].pguDiff)
                  /\ only12K => passes[n].is12K}}

TopOf(D) ==
    IF D = {} THEN <<ChrP, Chr0 + 1>>
    ELSE CHOOSE d \in D :
            \A e \in D : e # d => LexLess(DiffRank(e), DiffRank(d))

\* C12: after searchByPlayer has processed the passes, topDiff is the maximum
\* under 'tier P < G < U, then higher numeric rank' of the difficulties of the
\* player's non-deleted passes with a known chart and parseable difficulty,
\* top12kDiff the same maximum over the is12K passes, and both are P1 when
\* there is no such pass.
C12_TopDiffIsMaximum ==
    Done("searchByPlayer")
    => /\ ret.ok
       /\ ret.v.params["topDiff"].v = TopOf(DiffsOf(call.player.id, FALSE))
       /\ ret.v.params["top12kDiff"].v = TopOf(DiffsOf(call.player.id, TRUE))

\* The player's non-deleted passes on a chart with a known id
LivePassesOn(pid, c) == {i \in PassesOn(pid, c) : ~passes[i].isDeleted}
LiveCharts(pid) == {c \in ChartsPlayed(pid) : LivePassesOn(pid, c) # {}}

\* The positions, in the returned record list, of the records handed to
\* getRankedScore and calculateScores: the non-deleted survivors
RankedRecords(recs, c) ==
    {k \in RecordsWith(recs, "chartId", c) : ~recs[k]["isDeleted"].v}

\* C14: in searchByPlayer, for every chart with a known id on which the
\* player has a non-deleted pass, exactly one record of that chart is among
\* the records passed to getRankedScore and calculateScores, and it is the
\* player's highest-scoring non-deleted pass on that chart, also when the
\* player's overall highest-scoring pass on the chart is a deleted one.
C14_BestLivePassIsRanked ==
    (Done("searchByPlayer") /\ ~call.TwvKOnly)
    => /\ ret.ok
       /\ \A c \in LiveCharts(call.player.id) :
            /\ Cardinality(RankedRecords(ret.v.allScores, c)) = 1
            /\ \A k \in RankedRecords(ret.v.allScores, c) :
                 ret.v.allScores[k]["score"].v
                    = SetMax({PassScore(i) : i \in LivePassesOn(call.player.id, c)})

\* C15: when the leaderboard is sorted with topDiff as the primary key, the
\* ascending result agrees with the difficulty order 'tier P < G < U, then
\* higher numeric rank': a player with a lower top difficulty never comes
\* after a player with a higher one.
C15_TopDiffSortFollowsDifficulty ==
    (Done("sortLeaderboard") /\ call.sortBy = "topDiff" /\ ~call.reverse)
    => /\ ret.ok
       /\ \A i, j \in 1..Len(ret.v) :
            i < j => ~LexLess(DiffRank(ret.v[j]["topDiff"].v),
                              DiffRank(ret.v[i]["topDiff"].v))

====
